---- MODULE Spec2Model ----
(***************************************************************************)
(* Tiered CPAP storage: the streaming ingestor (streaming-ingest.ts), the  *)
(* columnar writer and the Micro read path (duckdb-service.ts, the micro   *)
(* route) and demo seeding (demo/seed.ts), as one state machine.           *)
(*                                                                         *)
(* Time is counted in ticks; a calendar day has TicksPerDay ticks.  The    *)
(* batch size (50,000 in the source) and the Micro point cap (10,000) are  *)
(* scaled down to BatchSize and PointCap.  Session ids are                 *)
(* <<"s", date, uuid>> with a fresh uuid per session (the 8 hex digits of  *)
(* uuidv4 are taken not to collide); demo ids are <<"demo", date, 0>>.     *)
(* Numbers held in FLOAT columns are exact rationals <<n, d>> in lowest    *)
(* terms, so that the narrowing to 32-bit floats is computed, not assumed. *)
(***************************************************************************)
EXTENDS Integers, Sequences, FiniteSets, TLC

VARIABLES
  pc,                \* position of the ingestion pass
  ret,               \* which await of appendToParquet is pending
  pending,           \* the row whose date change triggered the flush
  wcall,             \* arguments of the writeToParquet call in progress
  tempTable,         \* the engine's temp_samples table
  sessions,          \* Map<string, SessionAccumulator>
  dates,             \* Set<string> of dates seen in this pass
  currentSessionId,
  currentDate,
  result,            \* StreamingIngestResult
  nextUuid,          \* source of fresh uuids
  store,             \* nightly_aggregates rows
  files,             \* parquet files: path -> stored rows
  rowsRead,          \* data lines consumed so far, all passes
  passes,            \* ingestion passes started so far
  written,           \* history: samples handed to writeToParquet, per session
  upsertLog,         \* history: session ids passed to insertAggregate.run
  consumed,          \* history: kind and timestamp of the lines read in this pass
  resp,              \* last response of a session route (micro or meso)
  lttbIn,            \* series and target handed to lttbDownsample
  lttbOut,           \* what lttbDownsample returned for lttbIn
  fnIn,              \* arguments of a scoring or statistics function
  fnOut,             \* what the function returned for fnIn
  calls              \* writeToParquet calls of concurrent passes, by call

vars == <<pc, ret, pending, wcall, tempTable, sessions, dates, currentSessionId,
          currentDate, result, nextUuid, store, files, rowsRead, passes,
          written, upsertLog, consumed, resp, lttbIn, lttbOut, fnIn, fnOut, calls>>

\* ------------------------------------------------------------------ bounds
NumDays == 3
TicksPerDay == 2
MaxRows == 4
MaxPasses == 2
BatchSize == 2
PointCap == 3

Dates == 1..NumDays
Timestamps == TicksPerDay..((NumDays + 1) * TicksPerDay - 1)

\* ---------------------------------------------------------------- numbers
RECURSIVE GCD(_, _)
GCD(a, b) == IF b = 0 THEN a ELSE GCD(b, a % b)

RECURSIVE Pow2(_)
Pow2(k) == IF k = 0 THEN 1 ELSE 2 * Pow2(k - 1)

Rat(n, d) == LET g == GCD(n, d) IN <<n \div g, d \div g>>
Zero == <<0, 1>>
RatLess(x, y) == x[1] * y[2] < y[1] * x[2]
RSub(x, y) == Rat(x[1] * y[2] - y[1] * x[2], x[2] * y[2])
RMul(x, y) == Rat(x[1] * y[1], x[2] * y[2])
RAbs(x) == IF x[1] < 0 THEN <<-x[1], x[2]>> ELSE x
RInt(n) == <<n, 1>>
Min2(a, b) == IF a <= b THEN a ELSE b

\* A JavaScript division: x / 0 is Infinity (<<1, 0>>) or, for 0 / 0, NaN
\* (<<0, 0>>); IsFinite tells the numbers from these two.
Infinity == <<1, 0>>
NotANumber == <<0, 0>>
IsFinite(x) == x[2] # 0
JsDiv(x, y) ==
  IF y[1] = 0 THEN (IF x[1] = 0 THEN NotANumber ELSE Infinity)
  ELSE IF y[1] < 0 THEN Rat(-(x[1] * y[2]), -(x[2] * y[1]))
  ELSE Rat(x[1] * y[2], x[2] * y[1])
RMinOf(x, y) == IF RatLess(y, x) THEN y ELSE x
RMaxOf(x, y) == IF RatLess(x, y) THEN y ELSE x
\* Math.round: the nearest integer, halves upwards.
RRound(x) == <<(2 * x[1] + x[2]) \div (2 * x[2]), 1>>

\* The binary exponent e of a positive rational: 2^e <= n/d < 2^(e+1).
Exponent(n, d) ==
  CHOOSE e \in -8..8 :
    IF e >= 0
      THEN Pow2(e) * d <= n /\ n < Pow2(e + 1) * d
      ELSE d <= n * Pow2(-e) /\ n * Pow2(-e - 1) < d

\* A double narrowed to a FLOAT (IEEE binary32, 24-bit significand, round to
\* nearest, ties to even) and read back as a double.
NarrowToNearest(x) ==
  IF x[1] = 0 THEN Zero
  ELSE LET k == 23 - Exponent(x[1], x[2])
           num == x[1] * Pow2(k)
           q == num \div x[2]
           r == num % x[2]
           m == IF 2 * r > x[2] \/ (2 * r = x[2] /\ q % 2 = 1) THEN q + 1 ELSE q
       IN Rat(m, Pow2(k))

ToFloat32(x) == NarrowToNearest(x)

\* A double bound to an INTEGER column: the nearest integer.
ToInteger(x) == Rat((2 * x[1] + x[2]) \div (2 * x[2]), 1)

\* ------------------------------------------------------------------- rows
Absent == <<>>
NoSession == <<>>
NoDate == 0
NoRange == <<>>

\* The numeric cells of a data line as parseRow leaves them: Absent for an
\* empty cell (the field stays undefined), else the parsed number.
FullCells == [pressure |-> Rat(83, 10), leak_rate |-> Rat(25, 1),
              flow_limitation |-> Rat(1, 2), mask_on |-> Rat(1, 1)]
EmptyCells == [pressure |-> Absent, leak_rate |-> Absent,
               flow_limitation |-> Absent, mask_on |-> Absent]
Cells == {FullCells, EmptyCells}

Line(kind, ts, cells, etype) ==
  [kind |-> kind, ts |-> ts, cells |-> cells, event_type |-> etype]

SampleLines == {Line("sample", t, c, "") : t \in Timestamps, c \in Cells}
EventLines == {Line("event", d * TicksPerDay, EmptyCells, "apnea") : d \in Dates}
\* badcols: cell count differs from the header's; nots: empty timestamp cell;
\* badts: a timestamp cell that Date cannot parse.
MalformedLines == {Line(k, 0, EmptyCells, "") : k \in {"badcols", "nots", "badts"}}
Lines == SampleLines \cup EventLines \cup MalformedLines

NoLine == Line("none", 0, EmptyCells, "")

rowDate(ts) == ts \div TicksPerDay

OrZero(v) == IF v = Absent THEN Zero ELSE v

RawSample(r) ==
  [timestamp |-> r.ts,
   flow_rate |-> Zero,
   pressure |-> OrZero(r.cells.pressure),
   leak_rate |-> OrZero(r.cells.leak_rate),
   mask_on |-> OrZero(r.cells.mask_on)]

\* ------------------------------------------------------------ accumulator
NewAccumulator(sid, d) ==
  [sessionId |-> sid, date |-> d, samples |-> <<>>, events |-> <<>>,
   stats |-> [pressures |-> <<>>, leaks |-> <<>>, flowLimitations |-> <<>>,
              maskOnCount |-> 0, totalCount |-> 0]]

PushIf(seq, v) == IF v = Absent THEN seq ELSE Append(seq, v)

pushSample_NoCount(s, r) ==
  [s EXCEPT !.samples = Append(@, RawSample(r)),
            !.stats.pressures = PushIf(@, r.cells.pressure),
            !.stats.leaks = PushIf(@, r.cells.leak_rate),
            !.stats.flowLimitations = PushIf(@, r.cells.flow_limitation)]

pushSample(s, r) ==
  [s EXCEPT !.samples = Append(@, RawSample(r)),
            !.stats.pressures = PushIf(@, r.cells.pressure),
            !.stats.leaks = PushIf(@, r.cells.leak_rate),
            !.stats.flowLimitations = PushIf(@, r.cells.flow_limitation),
            !.stats.maskOnCount = IF r.cells.mask_on = Rat(1, 1) THEN @ + 1 ELSE @,
            !.stats.totalCount = @ + 1]

pushEvent(s, r) == [s EXCEPT !.events = Append(@, r.event_type)]

ClearBuffer_Keep(s) == s
ClearBuffer(s) == [s EXCEPT !.samples = <<>>]

deleteSession_Keep(m, sid) == m
deleteSession(m, sid) == [k \in DOMAIN m \ {sid} |-> m[k]]

\* ------------------------------------------------------------------ store
getParquetPath(sid) == <<"parquet", sid>>
DemoPath(sid) == <<"demo://", sid>>
isDemoSession(sid) == sid[1] = "demo"

RECURSIVE CountOver(_, _)
CountOver(seq, limit) ==
  IF seq = <<>> THEN 0
  ELSE (IF RatLess(limit, Head(seq)) THEN 1 ELSE 0) + CountOver(Tail(seq), limit)

\* 25 samples a second (lines 274-275).
SampleHz == 25
MinutesOf(count) == Rat(count, SampleHz * 60)

\* Lines 299-300: events per hour of mask-on time, 0 without mask-on time.
Ahi_NoGuard(totalEvents, maskOnMinutes) ==
  JsDiv(RInt(totalEvents), JsDiv(maskOnMinutes, RInt(60)))
Ahi(totalEvents, maskOnMinutes) ==
  LET usageHours == JsDiv(maskOnMinutes, RInt(60))
  IN IF RatLess(Zero, usageHours) THEN JsDiv(RInt(totalEvents), usageHours) ELSE Zero

\* Lines 286-289.
LargeLeakPercent(largeLeakCount, totalMinutes) ==
  IF RatLess(Zero, totalMinutes)
    THEN RMul(JsDiv(MinutesOf(largeLeakCount), totalMinutes), RInt(100))
    ELSE Zero

calculateSleepQualityScore_Uncapped(ahi, largeLeakPercent, maskOnMinutes, totalMinutes) ==
  LET d1 == IF RatLess(RInt(5), ahi) THEN RMul(RSub(ahi, RInt(5)), RInt(2)) ELSE Zero
      d2 == IF RatLess(RInt(15), ahi) THEN RSub(ahi, RInt(15)) ELSE Zero
      d3 == IF RatLess(RInt(10), largeLeakPercent) THEN largeLeakPercent ELSE Zero
      usagePercent == IF RatLess(Zero, totalMinutes)
                        THEN RMul(JsDiv(maskOnMinutes, totalMinutes), RInt(100))
                        ELSE Zero
      d4 == IF RatLess(usagePercent, RInt(80)) THEN RSub(RInt(80), usagePercent) ELSE Zero
  IN RRound(RSub(RSub(RSub(RSub(RInt(100), d1), d2), d3), d4))

calculateSleepQualityScore_ElseIf(ahi, largeLeakPercent, maskOnMinutes, totalMinutes) ==
  LET d1 == IF RatLess(RInt(15), ahi)
              THEN RMinOf(RInt(20), RSub(ahi, RInt(15)))
              ELSE IF RatLess(RInt(5), ahi)
                     THEN RMinOf(RInt(30), RMul(RSub(ahi, RInt(5)), RInt(2))) ELSE Zero
      d3 == IF RatLess(RInt(10), largeLeakPercent)
              THEN RMinOf(RInt(20), largeLeakPercent) ELSE Zero
      usagePercent == IF RatLess(Zero, totalMinutes)
                        THEN RMul(JsDiv(maskOnMinutes, totalMinutes), RInt(100))
                        ELSE Zero
      d4 == IF RatLess(usagePercent, RInt(80))
              THEN RMinOf(RInt(30), RSub(RInt(80), usagePercent)) ELSE Zero
      score == RSub(RSub(RSub(RInt(100), d1), d3), d4)
  IN RMaxOf(Zero, RMinOf(RInt(100), RRound(score)))

calculateSleepQualityScore(ahi, largeLeakPercent, maskOnMinutes, totalMinutes) ==
  LET d1 == IF RatLess(RInt(5), ahi)
              THEN RMinOf(RInt(30), RMul(RSub(ahi, RInt(5)), RInt(2))) ELSE Zero
      d2 == IF RatLess(RInt(15), ahi)
              THEN RMinOf(RInt(20), RSub(ahi, RInt(15))) ELSE Zero
      d3 == IF RatLess(RInt(10), largeLeakPercent)
              THEN RMinOf(RInt(20), largeLeakPercent) ELSE Zero
      usagePercent == IF RatLess(Zero, totalMinutes)
                        THEN RMul(JsDiv(maskOnMinutes, totalMinutes), RInt(100))
                        ELSE Zero
      d4 == IF RatLess(usagePercent, RInt(80))
              THEN RMinOf(RInt(30), RSub(RInt(80), usagePercent)) ELSE Zero
      score == RSub(RSub(RSub(RSub(RInt(100), d1), d2), d3), d4)
  IN RMaxOf(Zero, RMinOf(RInt(100), RRound(score)))

AggregateRow(s, path) ==
  [date |-> s.date, session_id |-> s.sessionId, parquet_path |-> path,
   total_usage_minutes |-> MinutesOf(s.stats.totalCount),
   mask_on_minutes |-> MinutesOf(s.stats.maskOnCount),
   ahi |-> Ahi(Len(s.events), MinutesOf(s.stats.maskOnCount)),
   sleep_quality_score |->
     calculateSleepQualityScore(
       Ahi(Len(s.events), MinutesOf(s.stats.maskOnCount)),
       LargeLeakPercent(CountOver(s.stats.leaks, Rat(24, 1)),
                        MinutesOf(s.stats.totalCount)),
       MinutesOf(s.stats.maskOnCount), MinutesOf(s.stats.totalCount)),
   totalCount |-> s.stats.totalCount, maskOnCount |-> s.stats.maskOnCount,
   totalEvents |-> Len(s.events),
   largeLeakCount |-> CountOver(s.stats.leaks, Rat(24, 1))]

\* nightly_aggregates has the calendar date as its unique key: a row
\* inserted with OR REPLACE removes the row with the same date.
UpsertByDate(st, row) == {x \in st : x.date # row.date} \cup {row}

insertAggregate_NoReplace(st, row) == st \cup {row}
insertAggregate(st, row) == UpsertByDate(st, row)

flushSessionTail_NoSkip(s, res, st, log) ==
  [result |-> [res EXCEPT !.parquetFiles = Append(@, getParquetPath(s.sessionId)),
                          !.eventsImported = @ + Len(s.events),
                          !.nightsImported = @ + 1],
   store |-> insertAggregate(st, AggregateRow(s, getParquetPath(s.sessionId))),
   upsertLog |-> Append(log, s.sessionId)]

\* flushSession after its await of appendToParquet: the path is reported,
\* the events are inserted, and unless the session has no sample its
\* aggregate is computed and upserted.
flushSessionTail(s, res, st, log) ==
  LET path == getParquetPath(s.sessionId)
      res1 == [res EXCEPT !.parquetFiles = Append(@, path),
                          !.eventsImported = @ + Len(s.events)]
  IN IF s.stats.totalCount = 0
       THEN [result |-> res1, store |-> st, upsertLog |-> log]
       ELSE [result |-> [res1 EXCEPT !.nightsImported = @ + 1],
             store |-> insertAggregate(st, AggregateRow(s, path)),
             upsertLog |-> Append(log, s.sessionId)]

\* ----------------------------------------------------------------- writer
NoCall == [sid |-> NoSession, samples |-> <<>>]
NoTable == [exists |-> FALSE, rows |-> <<>>]

\* One row of temp_samples (timestamp BIGINT, flow_rate FLOAT, pressure FLOAT,
\* leak_rate FLOAT, mask_on INTEGER) as the engine holds a bound sample.
StoredRow(x) ==
  [timestamp |-> x.timestamp,
   flow_rate |-> ToFloat32(x.flow_rate),
   pressure |-> ToFloat32(x.pressure),
   leak_rate |-> ToFloat32(x.leak_rate),
   mask_on |-> ToInteger(x.mask_on)]

StoredRows(samples) == [i \in 1..Len(samples) |-> StoredRow(samples[i])]

CreateOrReplaceTemp == [exists |-> TRUE, rows |-> <<>>]
InsertInto(t, samples) == [t EXCEPT !.rows = @ \o StoredRows(samples)]

\* COPY ... TO 'path' writes the file anew: what the path held is replaced.
CopyToParquet(fs, path, t) ==
  [p \in DOMAIN fs \cup {path} |-> IF p = path THEN t.rows ELSE fs[p]]

Handed(w, call) ==
  IF call.sid \in DOMAIN w THEN [w EXCEPT ![call.sid] = @ \o call.samples]
  ELSE w @@ (call.sid :> call.samples)

\* ----------------------------------------------------------------- result
NewResult ==
  [nightsImported |-> 0, samplesProcessed |-> 0, eventsImported |-> 0,
   parquetFiles |-> <<>>, errors |-> <<>>, dateRange |-> NoRange]

MinOf(S) == CHOOSE x \in S : \A y \in S : x <= y
MaxOf(S) == CHOOSE x \in S : \A y \in S : y <= x

WithDateRange(res, ds) ==
  IF ds = {} THEN res ELSE [res EXCEPT !.dateRange = <<MinOf(ds), MaxOf(ds)>>]

NoCallOfLttb == [data |-> <<>>, targetPoints |-> 0]
NoLttbOut == [kind |-> "none", out |-> <<>>]
NoArguments == [kind |-> "none"]
NoReturn == [kind |-> "none"]

NoResp == [kind |-> "none", status |-> 0, sid |-> NoSession, start |-> 0, end |-> 0, points |-> 0,
           originalPoints |-> 0, data |-> <<>>]

Init ==
  /\ pc = "header"
  /\ ret = "none"
  /\ pending = NoLine
  /\ wcall = NoCall
  /\ tempTable = NoTable
  /\ sessions = <<>>
  /\ dates = {}
  /\ currentSessionId = NoSession
  /\ currentDate = NoDate
  /\ result = NewResult
  /\ nextUuid = 1
  /\ store = {}
  /\ files = <<>>
  /\ rowsRead = 0
  /\ passes = 1
  /\ written = <<>>
  /\ upsertLog = <<>>
  /\ consumed = <<>>
  /\ resp = NoResp
  /\ lttbIn = NoCallOfLttb
  /\ lttbOut = NoLttbOut
  /\ fnIn = NoArguments
  /\ fnOut = NoReturn
  /\ calls = <<>>

\* ------------------------------------------------------------- the ingestor
\* Lines 151-187: the row goes to the current session; a sample that fills
\* the buffer starts a writeToParquet call (await appendToParquet).
AddRow(sess, cur, res, r) ==
  IF r.kind = "event"
    THEN /\ sessions' = [sess EXCEPT ![cur] = pushEvent(@, r)]
         /\ result' = res
         /\ pc' = "read" /\ wcall' = NoCall /\ ret' = "none"
    ELSE LET s1 == pushSample(sess[cur], r) IN
         /\ sessions' = [sess EXCEPT ![cur] = s1]
         /\ result' = [res EXCEPT !.samplesProcessed = @ + 1]
         /\ IF Len(s1.samples) >= BatchSize
              THEN /\ pc' = "w_create"
                   /\ wcall' = [sid |-> cur, samples |-> s1.samples]
                   /\ ret' = "batch"
              ELSE pc' = "read" /\ wcall' = NoCall /\ ret' = "none"

\* Lines 131-149, then 151-187: a new accumulator for the row's date.
OpenSessionAndAdd(sess, res, r) ==
  LET d == rowDate(r.ts)
      sid == <<"s", d, nextUuid>>
  IN /\ currentDate' = d
     /\ currentSessionId' = sid
     /\ nextUuid' = nextUuid + 1
     /\ dates' = dates \cup {d}
     /\ AddRow(sess @@ (sid :> NewAccumulator(sid, d)), sid, res, r)

HasCurrent == currentSessionId # NoSession /\ currentSessionId \in DOMAIN sessions

ReadHeader ==
  /\ UNCHANGED <<lttbIn, lttbOut, fnIn, fnOut, calls>>
  /\ pc = "header"
  /\ pc' = "read"
  /\ UNCHANGED <<ret, pending, wcall, tempTable, sessions, dates, currentSessionId,
                 currentDate, result, nextUuid, store, files, rowsRead, passes,
                 written, upsertLog, consumed, resp>>

\* One data line, from the read to the next await (lines 96-187).
ReadLine(r) ==
  /\ UNCHANGED <<lttbIn, lttbOut, fnIn, fnOut, calls>>
  /\ pc = "read"
  /\ rowsRead < MaxRows
  /\ rowsRead' = rowsRead + 1
  /\ consumed' = Append(consumed, [kind |-> r.kind, ts |-> r.ts])
  /\ UNCHANGED <<tempTable, files, passes, written, resp>>
  /\ IF r.kind \in {"badcols", "nots"}
       THEN UNCHANGED <<pc, ret, pending, wcall, sessions, dates, currentSessionId,
                        currentDate, result, nextUuid, store, upsertLog>>
     ELSE IF r.kind = "badts"
       \* new Date(text).toISOString() throws RangeError: the catch of line 209
       THEN /\ result' = [result EXCEPT !.errors = Append(@, "Streaming ingest failed")]
            /\ pc' = "done"
            /\ UNCHANGED <<ret, pending, wcall, sessions, dates, currentSessionId,
                           currentDate, nextUuid, store, upsertLog>>
     ELSE IF rowDate(r.ts) # currentDate
       THEN IF HasCurrent
              THEN IF Len(sessions[currentSessionId].samples) > 0
                     THEN /\ pc' = "w_create"
                          /\ wcall' = [sid |-> currentSessionId,
                                       samples |-> sessions[currentSessionId].samples]
                          /\ ret' = "boundary"
                          /\ pending' = r
                          /\ UNCHANGED <<sessions, dates, currentSessionId, currentDate,
                                         result, nextUuid, store, upsertLog>>
                     ELSE LET f == flushSessionTail(sessions[currentSessionId], result,
                                                    store, upsertLog)
                          IN /\ store' = f.store
                             /\ upsertLog' = f.upsertLog
                             /\ pending' = NoLine
                             /\ OpenSessionAndAdd(deleteSession(sessions, currentSessionId),
                                                  f.result, r)
              ELSE /\ OpenSessionAndAdd(sessions, result, r)
                   /\ UNCHANGED <<pending, store, upsertLog>>
     ELSE /\ AddRow(sessions, currentSessionId, result, r)
          /\ UNCHANGED <<pending, dates, currentSessionId, currentDate, nextUuid,
                         store, upsertLog>>

\* The input ends (lines 190-207): the last session is flushed.
EndOfInput ==
  /\ UNCHANGED <<lttbIn, lttbOut, fnIn, fnOut, calls>>
  /\ pc \in {"header", "read"}
  /\ UNCHANGED <<pending, tempTable, sessions, dates, currentSessionId, currentDate,
                 nextUuid, files, rowsRead, passes, written, consumed, resp>>
  /\ IF HasCurrent /\ Len(sessions[currentSessionId].samples) > 0
       THEN /\ pc' = "w_create"
            /\ wcall' = [sid |-> currentSessionId,
                         samples |-> sessions[currentSessionId].samples]
            /\ ret' = "final"
            /\ UNCHANGED <<result, store, upsertLog>>
     ELSE IF HasCurrent
       THEN LET f == flushSessionTail(sessions[currentSessionId], result, store, upsertLog)
            IN /\ store' = f.store
               /\ upsertLog' = f.upsertLog
               /\ result' = WithDateRange(f.result, dates)
               /\ pc' = "done"
               /\ UNCHANGED <<ret, wcall>>
     ELSE /\ result' = WithDateRange(result, dates)
          /\ pc' = "done"
          /\ UNCHANGED <<ret, wcall, store, upsertLog>>

\* --------------------------------------------------- writeToParquet, by step
WriteCreate ==
  /\ UNCHANGED <<lttbIn, lttbOut, fnIn, fnOut, calls>>
  /\ pc = "w_create"
  /\ tempTable' = CreateOrReplaceTemp
  /\ pc' = "w_insert"
  /\ UNCHANGED <<ret, pending, wcall, sessions, dates, currentSessionId, currentDate,
                 result, nextUuid, store, files, rowsRead, passes, written,
                 upsertLog, consumed, resp>>

WriteInsert ==
  /\ UNCHANGED <<lttbIn, lttbOut, fnIn, fnOut, calls>>
  /\ pc = "w_insert"
  /\ tempTable' = InsertInto(tempTable, wcall.samples)
  /\ pc' = "w_copy"
  /\ UNCHANGED <<ret, pending, wcall, sessions, dates, currentSessionId, currentDate,
                 result, nextUuid, store, files, rowsRead, passes, written,
                 upsertLog, consumed, resp>>

WriteCopy ==
  /\ UNCHANGED <<lttbIn, lttbOut, fnIn, fnOut, calls>>
  /\ pc = "w_copy"
  /\ files' = CopyToParquet(files, getParquetPath(wcall.sid), tempTable)
  /\ pc' = "w_drop"
  /\ UNCHANGED <<ret, pending, wcall, tempTable, sessions, dates, currentSessionId,
                 currentDate, result, nextUuid, store, rowsRead, passes, written,
                 upsertLog, consumed, resp>>

\* DROP TABLE completes, the promise resolves and the awaiting code goes on to
\* its next await: lines 185 (batch), 128-187 (date change) or 200-207 (end).
WriteDrop ==
  /\ UNCHANGED <<lttbIn, lttbOut, fnIn, fnOut, calls>>
  /\ pc = "w_drop"
  /\ tempTable' = NoTable
  /\ written' = Handed(written, wcall)
  /\ UNCHANGED <<files, rowsRead, passes, consumed, resp>>
  /\ IF ret = "batch"
       THEN /\ sessions' = [sessions EXCEPT ![wcall.sid] = ClearBuffer(@)]
            /\ pc' = "read" /\ ret' = "none" /\ wcall' = NoCall
            /\ UNCHANGED <<pending, dates, currentSessionId, currentDate, result,
                           nextUuid, store, upsertLog>>
     ELSE LET f == flushSessionTail(sessions[wcall.sid], result, store, upsertLog) IN
          /\ store' = f.store
          /\ upsertLog' = f.upsertLog
          /\ pending' = NoLine
          /\ IF ret = "boundary"
               THEN OpenSessionAndAdd(deleteSession(sessions, wcall.sid), f.result, pending)
               ELSE /\ result' = WithDateRange(f.result, dates)
                    /\ pc' = "done" /\ ret' = "none" /\ wcall' = NoCall
                    /\ UNCHANGED <<sessions, dates, currentSessionId, currentDate, nextUuid>>

\* The next call of ingestCPAPStreamingCSV (lines 52-94): fresh locals.
StartPass ==
  /\ UNCHANGED <<lttbIn, lttbOut, fnIn, fnOut, calls>>
  /\ pc = "done"
  /\ passes < MaxPasses
  /\ passes' = passes + 1
  /\ pc' = "header"
  /\ result' = NewResult
  /\ sessions' = <<>>
  /\ dates' = {}
  /\ currentSessionId' = NoSession
  /\ currentDate' = NoDate
  /\ consumed' = <<>>
  /\ UNCHANGED <<ret, pending, wcall, tempTable, nextUuid, store, files, rowsRead,
                 written, upsertLog, resp>>

Next ==
  \/ ReadHeader
  \/ \E r \in Lines : ReadLine(r)
  \/ EndOfInput
  \/ WriteCreate
  \/ WriteInsert
  \/ WriteCopy
  \/ WriteDrop
  \/ StartPass

Spec == Init /\ [][Next]_vars

\* ----------------------------------------------------------- flush failures
\* The catch of lines 209-211: the error is added to the report, with which
\* the call then resolves.
CatchError_Rethrow(res) == [pc |-> "rejected", result |-> res]
CatchError(res) ==
  [pc |-> "done",
   result |-> [res EXCEPT !.errors = Append(@, "Streaming ingest failed")]]

\* flushSession up to an insertAggregate.run that throws (lines 255-313).
flushSessionThrows(s, res) ==
  [res EXCEPT !.parquetFiles = Append(@, getParquetPath(s.sessionId)),
              !.eventsImported = @ + Len(s.events)]

\* A statement of writeToParquet fails (part_005 lines 77, 95, 101, 105): the
\* promise rejects, the await in the ingestor throws and the catch takes it.
WriteFail ==
  /\ UNCHANGED <<lttbIn, lttbOut, fnIn, fnOut, calls>>
  /\ pc \in {"w_create", "w_insert", "w_copy", "w_drop"}
  /\ written' = IF pc = "w_drop" THEN Handed(written, wcall) ELSE written
  /\ LET c == CatchError(result) IN pc' = c.pc /\ result' = c.result
  /\ wcall' = NoCall /\ ret' = "none" /\ pending' = NoLine
  /\ UNCHANGED <<tempTable, sessions, dates, currentSessionId, currentDate, nextUuid,
                 store, files, rowsRead, passes, upsertLog, consumed, resp>>

FailLines == {l \in SampleLines : l.cells = FullCells} \cup EventLines

\* insertAggregate.run throws in flushSession: after the last write of the
\* session, or, when the buffer is empty, at the end of the input or at the
\* first line of another date.
UpsertFail ==
  /\ UNCHANGED <<lttbIn, lttbOut, fnIn, fnOut, calls>>
  /\ \/ /\ pc = "w_drop"
        /\ ret \in {"boundary", "final"}
        /\ tempTable' = NoTable
        /\ written' = Handed(written, wcall)
        /\ LET c == CatchError(flushSessionThrows(sessions[wcall.sid], result))
           IN pc' = c.pc /\ result' = c.result
        /\ UNCHANGED <<rowsRead, consumed>>
     \/ /\ pc = "read"
        /\ HasCurrent
        /\ Len(sessions[currentSessionId].samples) = 0
        /\ sessions[currentSessionId].stats.totalCount > 0
        /\ \E r \in FailLines \cup {NoLine} :
             /\ r # NoLine => (rowDate(r.ts) # currentDate /\ rowsRead < MaxRows)
             /\ rowsRead' = IF r = NoLine THEN rowsRead ELSE rowsRead + 1
             /\ consumed' = IF r = NoLine THEN consumed
                            ELSE Append(consumed, [kind |-> r.kind, ts |-> r.ts])
        /\ LET c == CatchError(flushSessionThrows(sessions[currentSessionId], result))
           IN pc' = c.pc /\ result' = c.result
        /\ UNCHANGED <<tempTable, written>>
  /\ wcall' = NoCall /\ ret' = "none" /\ pending' = NoLine
  /\ UNCHANGED <<sessions, dates, currentSessionId, currentDate, nextUuid, store,
                 files, passes, upsertLog, resp>>

NextFail ==
  \/ ReadHeader
  \/ \E r \in FailLines : ReadLine(r)
  \/ EndOfInput
  \/ WriteCreate
  \/ WriteInsert
  \/ WriteCopy
  \/ WriteDrop
  \/ WriteFail
  \/ UpsertFail

SpecFail == Init /\ [][NextFail]_vars

\* ------------------------------------------------------------- demo seeding
\* The row seedDemoData inserts for one day.  The metrics of
\* generateNightMetrics are presentation data and are not modelled: the
\* count fields of a demo row hold 0.
\* total_usage_minutes of a demo night (210 to 510 in the source), scaled.
DemoUsageMinutes == 1

DemoSessionId(d) == <<"demo", d, 0>>
DemoRow(d) ==
  [date |-> d, session_id |-> DemoSessionId(d),
   parquet_path |-> DemoPath(DemoSessionId(d)),
   total_usage_minutes |-> Rat(DemoUsageMinutes, 1),
   totalCount |-> 0, maskOnCount |-> 0, totalEvents |-> 0, largeLeakCount |-> 0]

RECURSIVE SeedDays(_, _, _)
SeedDays(st, d, last) ==
  IF d > last THEN st ELSE SeedDays(insertAggregate(st, DemoRow(d)), d + 1, last)

\* seedDemoData(daysBack) on the day `today`: one transaction.
SeedDemo(today, daysBack) ==
  /\ UNCHANGED <<lttbIn, lttbOut, fnIn, fnOut, calls>>
  /\ store' = SeedDays(store, today - daysBack + 1, today)
  /\ UNCHANGED <<pc, ret, pending, wcall, tempTable, sessions, dates, currentSessionId,
                 currentDate, result, nextUuid, files, rowsRead, passes, written,
                 upsertLog, consumed, resp>>

DemoLines == {l \in SampleLines : l.ts % TicksPerDay = 0 /\ l.cells = FullCells}

NextDemo ==
  \/ ReadHeader
  \/ \E r \in DemoLines : ReadLine(r)
  \/ EndOfInput
  \/ WriteCreate
  \/ WriteInsert
  \/ WriteCopy
  \/ WriteDrop
  \/ StartPass
  \/ \E today \in Dates : \E daysBack \in 1..today : SeedDemo(today, daysBack)

SpecDemo == Init /\ [][NextDemo]_vars

\* -------------------------------------------------------------- micro reads

\* Math.floor(j * bucketSize) + 1 with bucketSize = (n - 2) / (t - 2).
BucketBound(j, n, t) == ((j * (n - 2)) \div (t - 2)) + 1

\* The indices (from 0) scanned for bucket i: bucketStart <= j < bucketEnd.
LttbCandidates(n, t, i) ==
  BucketBound(i + 1, n, t)..(Min2(BucketBound(i + 2, n, t), n - 1) - 1)

RECURSIVE SumRat(_, _, _, _)
SumRat(data, from, to, field) ==
  IF from >= to THEN Zero
  ELSE LET rest == SumRat(data, from + 1, to, field)
           v == IF field = "x" THEN RInt(data[from + 1].timestamp) ELSE data[from + 1].value
       IN Rat(v[1] * rest[2] + rest[1] * v[2], v[2] * rest[2])

\* The index (from 0, as in the source) lttbDownsample emits for bucket i
\* when the point emitted before it is a.
LttbChoice(data, t, i, a) ==
  LET n == Len(data)
      bucketStart == BucketBound(i + 1, n, t)
      bucketEnd == Min2(BucketBound(i + 2, n, t), n - 1)
      nextStart == BucketBound(i + 2, n, t)
      nextEnd == Min2(BucketBound(i + 3, n, t), n - 1)
      size == IF nextEnd - nextStart = 0 THEN 1 ELSE nextEnd - nextStart
      sumX == SumRat(data, nextStart, nextEnd, "x")
      sumY == SumRat(data, nextStart, nextEnd, "y")
      ax == RInt(data[a + 1].timestamp)
      ay == data[a + 1].value
      \* |size| times twice the triangle area of candidate j
      Area(j) ==
        RAbs(RSub(RMul(RSub(RMul(ax, RInt(size)), sumX), RSub(data[j + 1].value, ay)),
                  RMul(RSub(ax, RInt(data[j + 1].timestamp)),
                       RSub(sumY, RMul(ay, RInt(size))))))
      cands == bucketStart..(bucketEnd - 1)
  IN IF cands = {} THEN bucketStart
     ELSE CHOOSE j \in cands :
            /\ \A k \in cands : ~RatLess(Area(j), Area(k))
            /\ \A k \in cands : k < j => RatLess(Area(k), Area(j))

LttbBuckets_NoLoop(data, t, i, a) == <<>>

RECURSIVE LttbBuckets(_, _, _, _)
LttbBuckets(data, t, i, a) ==
  IF i >= t - 2 THEN <<>>
  ELSE LET j == LttbChoice(data, t, i, a)
       IN <<data[j + 1]>> \o LttbBuckets(data, t, i + 1, j)

lttbDownsample_NoLast(data, targetPoints) ==
  IF Len(data) <= targetPoints THEN data
  ELSE <<data[1]>> \o LttbBuckets(data, targetPoints, 0, 0)

lttbDownsample(data, targetPoints) ==
  IF Len(data) <= targetPoints THEN data
  ELSE <<data[1]>> \o LttbBuckets(data, targetPoints, 0, 0) \o <<data[Len(data)]>>

\* The rows of a file with startTime <= timestamp <= endTime, ORDER BY
\* timestamp ASC: every order of the rows that is ascending in timestamp
\* (rows of equal timestamp come in no defined order).
RangeScans(rows, startTime, endTime) ==
  LET idx == {i \in DOMAIN rows :
                rows[i].timestamp >= startTime /\ rows[i].timestamp <= endTime}
      n == Cardinality(idx)
  IN {[k \in 1..n |-> rows[p[k]]] :
        p \in {q \in [1..n -> idx] :
                 /\ \A a, b \in 1..n : a # b => q[a] # q[b]
                 /\ \A a, b \in 1..n :
                      a < b => rows[q[a]].timestamp <= rows[q[b]].timestamp}}

FlowSeries(rows) ==
  [i \in DOMAIN rows |-> [timestamp |-> rows[i].timestamp, value |-> rows[i].flow_rate]]

\* Lines 97-107 of the micro route: the rows whose timestamp LTTB kept.
Downsampled(rawData, maxPoints) ==
  IF Len(rawData) > maxPoints
    THEN LET kept == {x.timestamp : x \in
                        {lttbDownsample(FlowSeries(rawData), maxPoints)[i] :
                           i \in DOMAIN lttbDownsample(FlowSeries(rawData), maxPoints)}}
         IN SelectSeq(rawData, LAMBDA x : x.timestamp \in kept)
    ELSE rawData

Response(status, sid, startTime, endTime, points, original, data) ==
  [kind |-> "micro", status |-> status, sid |-> sid, start |-> startTime, end |-> endTime,
   points |-> points, originalPoints |-> original, data |-> data]

\* GET /api/session/[id]/micro for a session that is not a demo session.
MicroRequest(sid, startTime, endTime, points) ==
  /\ UNCHANGED <<lttbIn, lttbOut, fnIn, fnOut, calls>>
  /\ resp = NoResp
  /\ ~isDemoSession(sid)
  /\ UNCHANGED <<pc, ret, pending, wcall, tempTable, sessions, dates, currentSessionId,
                 currentDate, result, nextUuid, store, files, rowsRead, passes,
                 written, upsertLog, consumed>>
  /\ IF startTime = 0 \/ endTime = 0 \/ endTime <= startTime
       THEN resp' = Response(400, sid, startTime, endTime, points, 0, <<>>)
     ELSE IF ~\E row \in store : row.session_id = sid
       THEN resp' = Response(404, sid, startTime, endTime, points, 0, <<>>)
     ELSE IF getParquetPath(sid) \notin DOMAIN files
       THEN resp' = Response(500, sid, startTime, endTime, points, 0, <<>>)
     ELSE \E rawData \in RangeScans(files[getParquetPath(sid)], startTime, endTime) :
            resp' = Response(200, sid, startTime, endTime, points, Len(rawData),
                             Downsampled(rawData, Min2(points, PointCap)))

\* The response leaves the server.
Deliver ==
  /\ UNCHANGED <<lttbIn, lttbOut, fnIn, fnOut, calls>>
  /\ resp # NoResp
  /\ resp' = NoResp
  /\ UNCHANGED <<pc, ret, pending, wcall, tempTable, sessions, dates, currentSessionId,
                 currentDate, result, nextUuid, store, files, rowsRead, passes,
                 written, upsertLog, consumed>>

QueryLines ==
  {l \in SampleLines :
     rowDate(l.ts) = 1 \/ (l.ts = 2 * TicksPerDay /\ l.cells = FullCells)}
UnknownSession == <<"s", 1, 0>>
KnownSessions ==
  {row.session_id : row \in store} \cup DOMAIN sessions \cup DOMAIN written
    \cup {UnknownSession}
QueryStarts == {0, TicksPerDay, TicksPerDay + 1}
QueryEnds == {TicksPerDay, 3 * TicksPerDay - 1}
QueryPoints == 0..(PointCap + 1)

IngestStep ==
  \/ ReadHeader
  \/ \E r \in QueryLines : ReadLine(r)
  \/ EndOfInput
  \/ WriteCreate
  \/ WriteInsert
  \/ WriteCopy
  \/ WriteDrop

NextQuery ==
  \/ resp = NoResp /\ IngestStep
  \/ \E sid \in {x \in KnownSessions : ~isDemoSession(x)} :
       \E startTime \in QueryStarts : \E endTime \in QueryEnds :
         \E points \in QueryPoints : MicroRequest(sid, startTime, endTime, points)
  \/ Deliver

SpecQuery == Init /\ [][NextQuery]_vars

\* -------------------------------------------------- lttbDownsample by itself
MaxSeries == 4
MaxTarget == 4

SeriesValues == {Zero, Rat(1, 1), Rat(5, 2)}
SeriesPoints == [timestamp : 1..MaxSeries, value : SeriesValues]

\* The series handed to lttbDownsample: ascending in timestamp, as the scan
\* returns them, timestamps possibly repeated.
Series ==
  UNION {{q \in [1..n -> SeriesPoints] :
            \A i \in 1..(n - 1) : q[i].timestamp <= q[i + 1].timestamp} :
         n \in 1..MaxSeries}
Targets == -1..MaxTarget
LttbInputs == [data : Series, targetPoints : Targets]

InitLttb ==
  /\ pc = "header"
  /\ ret = "none"
  /\ pending = NoLine
  /\ wcall = NoCall
  /\ tempTable = NoTable
  /\ sessions = <<>>
  /\ dates = {}
  /\ currentSessionId = NoSession
  /\ currentDate = NoDate
  /\ result = NewResult
  /\ nextUuid = 1
  /\ store = {}
  /\ files = <<>>
  /\ rowsRead = 0
  /\ passes = 1
  /\ written = <<>>
  /\ upsertLog = <<>>
  /\ consumed = <<>>
  /\ resp = NoResp
  /\ lttbIn \in LttbInputs
  /\ lttbOut = NoLttbOut
  /\ fnIn = NoArguments
  /\ fnOut = NoReturn
  /\ calls = <<>>

ApplyLttb ==
  /\ lttbOut = NoLttbOut
  /\ lttbOut' = [kind |-> "lttb",
                 out |-> lttbDownsample(lttbIn.data, lttbIn.targetPoints)]
  /\ UNCHANGED <<pc, ret, pending, wcall, tempTable, sessions, dates, currentSessionId,
                 currentDate, result, nextUuid, store, files, rowsRead, passes,
                 written, upsertLog, consumed, resp, lttbIn, fnIn, fnOut, calls>>

\* The rows of a scan whose timestamp and flow_rate columns are the series.
RowsOfSeries(data) ==
  [i \in DOMAIN data |->
     [timestamp |-> data[i].timestamp, flow_rate |-> data[i].value,
      pressure |-> Zero, leak_rate |-> Zero, mask_on |-> Zero]]

\* Lines 41 and 97-107 of the micro route on the rows of a scan.
ApplyDownsampled ==
  /\ lttbOut = NoLttbOut
  /\ lttbOut' = [kind |-> "micro",
                 out |-> Downsampled(RowsOfSeries(lttbIn.data),
                                     Min2(lttbIn.targetPoints, PointCap))]
  /\ UNCHANGED <<pc, ret, pending, wcall, tempTable, sessions, dates, currentSessionId,
                 currentDate, result, nextUuid, store, files, rowsRead, passes,
                 written, upsertLog, consumed, resp, lttbIn, fnIn, fnOut, calls>>

NextLttb ==
  \/ ApplyLttb
  \/ ApplyDownsampled

SpecLttb == InitLttb /\ [][NextLttb]_vars

\* ------------------------------------------ calculateSleepQualityScore by itself
\* The ingestor, the writer and the routes at rest.
AtRest ==
  /\ pc = "header"
  /\ ret = "none"
  /\ pending = NoLine
  /\ wcall = NoCall
  /\ tempTable = NoTable
  /\ sessions = <<>>
  /\ dates = {}
  /\ currentSessionId = NoSession
  /\ currentDate = NoDate
  /\ result = NewResult
  /\ nextUuid = 1
  /\ store = {}
  /\ files = <<>>
  /\ rowsRead = 0
  /\ passes = 1
  /\ written = <<>>
  /\ upsertLog = <<>>
  /\ consumed = <<>>
  /\ resp = NoResp
  /\ lttbIn = NoCallOfLttb
  /\ lttbOut = NoLttbOut

\* The metrics handed to calculateSleepQualityScore: AHI values on both
\* sides of the thresholds 5 and 15 and of the caps, leak percentages on both
\* sides of 10 and 20, and usage counts from no usage to full usage.
AhiValues ==
  {Rat(-1, 1), Zero, Rat(9, 2), Rat(5, 1), Rat(21, 4), Rat(11, 2), Rat(10, 1),
   Rat(15, 1), Rat(61, 4), Rat(20, 1), Rat(35, 1), Rat(90000, 1), Infinity}
LeakPercents ==
  {Zero, Rat(10, 1), Rat(11, 1), Rat(25, 2), Rat(20, 1), Rat(30, 1), Rat(100, 1)}
UsageCounts ==
  {<<0, 0>>, <<0, 4>>, <<1, 4>>, <<3, 4>>, <<4, 5>>, <<4, 4>>}
ScoreInputs ==
  [kind : {"score"}, ahi : AhiValues, ahi2 : AhiValues, largeLeakPercent : LeakPercents,
   counts : UsageCounts]

InitScore == AtRest /\ fnIn \in ScoreInputs /\ fnOut = NoReturn /\ calls = <<>>

ApplyScore ==
  /\ fnIn.kind = "score"
  /\ fnOut = NoReturn
  /\ fnOut' = [kind |-> "score",
               first |-> calculateSleepQualityScore(
                           fnIn.ahi, fnIn.largeLeakPercent,
                           MinutesOf(fnIn.counts[1]), MinutesOf(fnIn.counts[2]))]
  /\ UNCHANGED <<pc, ret, pending, wcall, tempTable, sessions, dates, currentSessionId,
                 currentDate, result, nextUuid, store, files, rowsRead, passes,
                 written, upsertLog, consumed, resp, lttbIn, lttbOut, fnIn, calls>>

\* A second call with the other AHI and the same leak and usage.
ApplyScoreAgain ==
  /\ fnOut.kind = "score"
  /\ fnOut' = [kind |-> "scores", first |-> fnOut.first,
               second |-> calculateSleepQualityScore(
                            fnIn.ahi2, fnIn.largeLeakPercent,
                            MinutesOf(fnIn.counts[1]), MinutesOf(fnIn.counts[2]))]
  /\ UNCHANGED <<pc, ret, pending, wcall, tempTable, sessions, dates, currentSessionId,
                 currentDate, result, nextUuid, store, files, rowsRead, passes,
                 written, upsertLog, consumed, resp, lttbIn, lttbOut, fnIn, calls>>

NextScore ==
  \/ ApplyScore
  \/ ApplyScoreAgain

SpecScore == InitScore /\ [][NextScore]_vars

\* --------------------------------------------------------------- meso reads
\* Timestamps are milliseconds since the epoch; a tick is TickMs of them.
MsPerDay == 86400000
NightStartMs == 79200000
MinBucket == 1
MaxBucket == 300
TickMs == MsPerDay \div TicksPerDay

\* The result of parseInt: a number, or NaN for text that is not one.
Num(v) == <<"num", v>>
NaN == <<"nan", 0>>
IsNum(x) == x[1] = "num"

CeilDiv(a, b) == (a + b - 1) \div b

RECURSIVE SortedSeq(_)
SortedSeq(S) ==
  IF S = {} THEN <<>> ELSE <<MinOf(S)>> \o SortedSeq(S \ {MinOf(S)})

\* The offset of the server's local time from UTC, which setHours reads.
TzOffsets == {0, 19800000}

\* The bucket_start values generateSyntheticMeso returns (the other fields
\* are random presentation data).  With a NaN bucket size totalBuckets is
\* NaN and the loop does not run.
generateSyntheticMeso(sid, bucketSeconds, durationMinutes, tz) ==
  IF ~IsNum(bucketSeconds) THEN <<>>
  ELSE LET totalBuckets == CeilDiv(durationMinutes * 60, bucketSeconds[2])
           startTimestamp == sid[2] * MsPerDay + NightStartMs - tz
       IN [i \in 1..totalBuckets |->
             startTimestamp + (i - 1) * bucketSeconds[2] * 1000]

\* timestamp / N in the engine: integer division, or decimal division where
\* the engine's / divides integers as doubles (its newer releases do).
Divisions == {"integer", "decimal"}
BucketStart(ms, bucketSeconds, division) ==
  IF division = "integer"
    THEN (ms \div (bucketSeconds * 1000)) * (bucketSeconds * 1000)
    ELSE ms

\* The bucket_start values of getMesoView: GROUP BY and ORDER BY bucket_start.
getMesoView(rows, bucketSeconds, division) ==
  SortedSeq({BucketStart(rows[i].timestamp * TickMs, bucketSeconds, division) :
               i \in DOMAIN rows})

\* SELECT ... FROM nightly_aggregates WHERE session_id = ?
SessionRows_NoCheck(st, sid) ==
  {[date |-> sid[2], session_id |-> sid, parquet_path |-> getParquetPath(sid)]}
SessionRows(st, sid) == {row \in st : row.session_id = sid}

MesoResponse(status, sid, bucket, data) ==
  [kind |-> "meso", status |-> status, sid |-> sid, bucket |-> bucket, data |-> data]

\* GET /api/session/[id]/meso.
MesoRequest(sid, bucket) ==
  /\ UNCHANGED <<lttbIn, lttbOut, fnIn, fnOut, calls>>
  /\ resp = NoResp
  /\ UNCHANGED <<pc, ret, pending, wcall, tempTable, sessions, dates, currentSessionId,
                 currentDate, result, nextUuid, store, files, rowsRead, passes,
                 written, upsertLog, consumed>>
  /\ IF IsNum(bucket) /\ (bucket[2] < MinBucket \/ bucket[2] > MaxBucket)
       THEN resp' = MesoResponse(400, sid, bucket, <<>>)
     ELSE IF SessionRows(store, sid) = {}
       THEN resp' = MesoResponse(404, sid, bucket, <<>>)
     ELSE IF isDemoSession(sid)
       THEN \E tz \in TzOffsets :
              resp' = MesoResponse(200, sid, bucket,
                        generateSyntheticMeso(sid, bucket, DemoUsageMinutes, tz))
     ELSE IF getParquetPath(sid) \notin DOMAIN files \/ ~IsNum(bucket)
       \* getMesoView throws, or the engine rejects the query text
       THEN resp' = MesoResponse(500, sid, bucket, <<>>)
     ELSE \E division \in Divisions :
            resp' = MesoResponse(200, sid, bucket,
                      getMesoView(files[getParquetPath(sid)], bucket[2], division))

\* ingestCPAPCSV (the upload route's ingestor) on a file of one sample row:
\* an aggregate without a columnar file.
LegacySessionId(d) == <<"l", d, 0>>
LegacyRow(d) ==
  [date |-> d, session_id |-> LegacySessionId(d), parquet_path |-> Absent,
   totalCount |-> 1, maskOnCount |-> 0, totalEvents |-> 0, largeLeakCount |-> 0]

LegacyIngest(ts) ==
  /\ store' = insertAggregate(store, LegacyRow(rowDate(ts)))
  /\ UNCHANGED <<pc, ret, pending, wcall, tempTable, sessions, dates, currentSessionId,
                 currentDate, result, nextUuid, files, rowsRead, passes, written,
                 upsertLog, consumed, resp, lttbIn, lttbOut, fnIn, fnOut, calls>>

ServeLines == {l \in SampleLines : l.cells = FullCells /\ l.ts <= 2 * TicksPerDay}
BucketInputs == {NaN, Num(0), Num(7), Num(60), Num(MaxBucket + 1)}
ServePoints == {-1, 0, 2}

ServeIngestStep ==
  \/ ReadHeader
  \/ \E r \in ServeLines : ReadLine(r)
  \/ EndOfInput
  \/ WriteCreate
  \/ WriteInsert
  \/ WriteCopy
  \/ WriteDrop

NextServe ==
  \/ resp = NoResp /\ ServeIngestStep
  \/ resp = NoResp /\ SeedDemo(NumDays, 1)
  \/ resp = NoResp /\ LegacyIngest(TicksPerDay)
  \/ \E sid \in KnownSessions : \E bucket \in BucketInputs : MesoRequest(sid, bucket)
  \/ \E sid \in {x \in KnownSessions : ~isDemoSession(x)} :
       \E startTime \in QueryStarts : \E endTime \in QueryEnds :
         \E points \in ServePoints : MicroRequest(sid, startTime, endTime, points)
  \/ Deliver

SpecServe == Init /\ [][NextServe]_vars

\* ------------------------------------------------ the meso query by itself
MaxStored == 3

\* Rows of a columnar file with millisecond timestamps: samples within one
\* second, one second apart and seven seconds apart.
StoredMs == {0, 500, 1000, 7000}
StoredPoints == [timestamp : StoredMs, value : SeriesValues]
MesoInputs ==
  [kind : {"meso"},
   rows : UNION {[1..n -> StoredPoints] : n \in 1..MaxStored},
   bucketSeconds : {1, 7}]

\* The SELECT of getMesoView: one row per value of bucket_start, in
\* ascending order, with AVG(flow_rate) over the rows of the group.
MesoBuckets(rows, bucketSeconds, division) ==
  LET starts == SortedSeq({BucketStart(rows[i].timestamp, bucketSeconds, division) :
                             i \in DOMAIN rows})
      Group(b) == SelectSeq(rows, LAMBDA x :
                              BucketStart(x.timestamp, bucketSeconds, division) = b)
  IN [k \in DOMAIN starts |->
        [bucket_start |-> starts[k],
         flow_avg |-> JsDiv(SumRat(Group(starts[k]), 0, Len(Group(starts[k])), "y"),
                            RInt(Len(Group(starts[k]))))]]

InitMeso == AtRest /\ fnIn \in MesoInputs /\ fnOut = NoReturn /\ calls = <<>>

ApplyMeso ==
  /\ fnIn.kind = "meso"
  /\ fnOut = NoReturn
  /\ \E division \in Divisions :
       fnOut' = [kind |-> "meso",
                 rows |-> MesoBuckets(fnIn.rows, fnIn.bucketSeconds, division)]
  /\ UNCHANGED <<pc, ret, pending, wcall, tempTable, sessions, dates, currentSessionId,
                 currentDate, result, nextUuid, store, files, rowsRead, passes,
                 written, upsertLog, consumed, resp, lttbIn, lttbOut, fnIn, calls>>

SpecMeso == InitMeso /\ [][ApplyMeso]_vars

\* --------------------------------------- calculateMedian, calculatePercentile
MaxStats == 4

\* values.sort((a, b) => a - b): ascending, equal values kept.
RECURSIVE SortAscending(_)
SortAscending(values) ==
  IF values = <<>> THEN <<>>
  ELSE LET m == CHOOSE i \in DOMAIN values :
                  \A j \in DOMAIN values : ~RatLess(values[j], values[i])
       IN <<values[m]>> \o
          SortAscending([k \in 1..(Len(values) - 1) |->
                           IF k < m THEN values[k] ELSE values[k + 1]])

SortedCopy_InPlace(values) ==
  [sorted |-> SortAscending(values), values |-> SortAscending(values)]

\* [...values].sort(...): the sorted copy, and the array as the call leaves it.
SortedCopy(values) == [sorted |-> SortAscending(values), values |-> values]

calculateMedian(values) ==
  IF Len(values) = 0 THEN Zero
  ELSE LET sorted == SortedCopy(values).sorted
           mid == Len(sorted) \div 2
       IN IF Len(sorted) % 2 = 0
            THEN JsDiv(Rat(sorted[mid][1] * sorted[mid + 1][2]
                             + sorted[mid + 1][1] * sorted[mid][2],
                           sorted[mid][2] * sorted[mid + 1][2]),
                       RInt(2))
            ELSE sorted[mid + 1]

\* percentile is the fraction <<numerator, denominator>>.
calculatePercentile(values, percentile) ==
  IF Len(values) = 0 THEN Zero
  ELSE LET sorted == SortedCopy(values).sorted
           index == CeilDiv(Len(sorted) * percentile[1], percentile[2]) - 1
       IN sorted[(IF index < 0 THEN 0 ELSE index) + 1]

StatValues == {Rat(1, 1), Rat(2, 1), Rat(3, 1), Rat(4, 1)}
Percentiles == {<<0, 1>>, <<1, 2>>, <<95, 100>>, <<1, 1>>}
StatInputs ==
  [kind : {"stats"},
   values : UNION {[1..n -> StatValues] : n \in 1..MaxStats},
   percentile : Percentiles]

InitStats == AtRest /\ fnIn \in StatInputs /\ fnOut = NoReturn /\ calls = <<>>

\* Lines 277 and 280 of flushSession: the median and then a percentile of
\* one stat array.
ApplyMedian ==
  /\ fnIn.kind = "stats"
  /\ fnOut = NoReturn
  /\ fnOut' = [kind |-> "median", given |-> fnIn.values,
               median |-> calculateMedian(fnIn.values)]
  /\ fnIn' = [fnIn EXCEPT !.values = SortedCopy(fnIn.values).values]
  /\ UNCHANGED <<pc, ret, pending, wcall, tempTable, sessions, dates, currentSessionId,
                 currentDate, result, nextUuid, store, files, rowsRead, passes,
                 written, upsertLog, consumed, resp, lttbIn, lttbOut, calls>>

ApplyPercentile ==
  /\ fnOut.kind = "median"
  /\ fnOut' = [kind |-> "stats", given |-> fnOut.given, median |-> fnOut.median,
               percentile |-> calculatePercentile(fnIn.values, fnIn.percentile)]
  /\ fnIn' = [fnIn EXCEPT !.values = SortedCopy(fnIn.values).values]
  /\ UNCHANGED <<pc, ret, pending, wcall, tempTable, sessions, dates, currentSessionId,
                 currentDate, result, nextUuid, store, files, rowsRead, passes,
                 written, upsertLog, consumed, resp, lttbIn, lttbOut, calls>>

NextStats ==
  \/ ApplyMedian
  \/ ApplyPercentile

SpecStats == InitStats /\ [][NextStats]_vars

\* ------------------------------------------- concurrent writeToParquet calls
\* Two passes of one process write at overlapping times.  Each call submits
\* its statements from the callback of the previous one (part_005 64-108) to
\* the singleton engine, which runs the statements one at a time in the order
\* submitted: CREATE OR REPLACE, the INSERTs with finalize, COPY, DROP.  A
\* statement on a table that does not exist fails and the call rejects.
CallBatches(d) ==
  UNION {[1..n -> {RawSample(l) : l \in {x \in SampleLines :
                                          x.cells = FullCells /\ rowDate(x.ts) = d}}] :
         n \in 1..BatchSize}
ConcurrentCalls ==
  {<<[sid |-> <<"s", 1, 1>>, samples |-> a, step |-> "create"],
     [sid |-> <<"s", 2, 2>>, samples |-> b, step |-> "create"]>> :
     a \in CallBatches(1), b \in CallBatches(2)}

InitWriters == AtRest /\ fnIn = NoArguments /\ fnOut = NoReturn /\ calls \in ConcurrentCalls

CallCreate(c) ==
  /\ calls[c].step = "create"
  /\ tempTable' = CreateOrReplaceTemp
  /\ calls' = [calls EXCEPT ![c].step = "insert"]
  /\ UNCHANGED <<pc, ret, pending, wcall, sessions, dates, currentSessionId,
                 currentDate, result, nextUuid, store, files, rowsRead, passes,
                 written, upsertLog, consumed, resp, lttbIn, lttbOut, fnIn, fnOut>>

CallInsert(c) ==
  /\ calls[c].step = "insert"
  /\ IF tempTable.exists
       THEN /\ tempTable' = InsertInto(tempTable, calls[c].samples)
            /\ calls' = [calls EXCEPT ![c].step = "copy"]
       ELSE /\ calls' = [calls EXCEPT ![c].step = "rejected"]
            /\ UNCHANGED tempTable
  /\ UNCHANGED <<pc, ret, pending, wcall, sessions, dates, currentSessionId,
                 currentDate, result, nextUuid, store, files, rowsRead, passes,
                 written, upsertLog, consumed, resp, lttbIn, lttbOut, fnIn, fnOut>>

CallCopy(c) ==
  /\ calls[c].step = "copy"
  /\ IF tempTable.exists
       THEN /\ files' = CopyToParquet(files, getParquetPath(calls[c].sid), tempTable)
            /\ calls' = [calls EXCEPT ![c].step = "drop"]
       ELSE /\ calls' = [calls EXCEPT ![c].step = "rejected"]
            /\ UNCHANGED files
  /\ UNCHANGED <<pc, ret, pending, wcall, tempTable, sessions, dates, currentSessionId,
                 currentDate, result, nextUuid, store, rowsRead, passes,
                 written, upsertLog, consumed, resp, lttbIn, lttbOut, fnIn, fnOut>>

CallDrop(c) ==
  /\ calls[c].step = "drop"
  /\ IF tempTable.exists
       THEN /\ tempTable' = NoTable
            /\ calls' = [calls EXCEPT ![c].step = "resolved"]
       ELSE /\ calls' = [calls EXCEPT ![c].step = "rejected"]
            /\ UNCHANGED tempTable
  /\ UNCHANGED <<pc, ret, pending, wcall, sessions, dates, currentSessionId,
                 currentDate, result, nextUuid, store, files, rowsRead, passes,
                 written, upsertLog, consumed, resp, lttbIn, lttbOut, fnIn, fnOut>>

NextWriters ==
  \E c \in {1, 2} :
    \/ CallCreate(c)
    \/ CallInsert(c)
    \/ CallCopy(c)
    \/ CallDrop(c)

SpecWriters == InitWriters /\ [][NextWriters]_vars

\* ------------------------------------------------------------- properties
Range(seq) == {seq[i] : i \in DOMAIN seq}

RECURSIVE SumOver(_, _)
SumOver(S, m) ==
  IF S = {} THEN 0
  ELSE LET x == CHOOSE y \in S : TRUE IN m[x] + SumOver(S \ {x}, m)

\* C1: once a session is flushed, its columnar file holds every sample of
\* every batch that was handed to writeToParquet for it.
C1_NoBatchOverwritten ==
  \A sid \in Range(upsertLog) :
    /\ getParquetPath(sid) \in DOMAIN files
    /\ files[getParquetPath(sid)] = StoredRows(written[sid])

\* Sequences of samples compared as multisets, and the range of a request.
IsAscending(seq) ==
  \A i, j \in DOMAIN seq : i < j => seq[i].timestamp <= seq[j].timestamp
Occurrences(seq, x) == Cardinality({i \in DOMAIN seq : seq[i] = x})
SameSamples(a, b) ==
  /\ Len(a) = Len(b)
  /\ \A x \in Range(a) \cup Range(b) : Occurrences(a, x) = Occurrences(b, x)
CoversSession(r, samples) ==
  \A i \in DOMAIN samples :
    r.start <= samples[i].timestamp /\ samples[i].timestamp <= r.end

\* C2: a Micro read of a session ingested in timestamp order, over a range
\* that covers the session and with points >= its number of samples, returns
\* the session's samples, field values unchanged, in ascending timestamp order.
C2_RoundTrip ==
  (/\ resp.status = 200
   /\ resp.sid \in DOMAIN written
   /\ IsAscending(written[resp.sid])
   /\ CoversSession(resp, written[resp.sid])
   /\ resp.points >= Len(written[resp.sid]))
  => (IsAscending(resp.data) /\ SameSamples(resp.data, written[resp.sid]))

\* C9: every aggregate with a columnar path refers to an existing file that
\* holds at least one sample of the aggregate's session.
C9_PathHasSamples ==
  \A row \in store :
    /\ row.parquet_path \in DOMAIN files
    /\ Len(files[row.parquet_path]) >= 1
    /\ row.session_id \in DOMAIN written
    /\ \A i \in DOMAIN files[row.parquet_path] :
         \E j \in DOMAIN written[row.session_id] :
           files[row.parquet_path][i] = StoredRow(written[row.session_id][j])

\* C3: at most one accumulator is live, and when an accumulator is created
\* every accumulator that was live has been flushed (its samples all handed
\* to the writer, its path reported, its aggregate upserted) and removed.
C3_OneLiveAccumulator ==
  [][/\ Cardinality(DOMAIN sessions') <= 1
     /\ \A new \in DOMAIN sessions' \ DOMAIN sessions :
          \A old \in DOMAIN sessions :
            /\ old \notin DOMAIN sessions'
            /\ getParquetPath(old) \in Range(result'.parquetFiles)
            /\ sessions[old].stats.totalCount > 0 =>
                 /\ old \in DOMAIN written'
                 /\ Len(written'[old]) = sessions[old].stats.totalCount
                 /\ old \in Range(upsertLog')]_vars

C3_Witness ==
  /\ pc = "read"
  /\ Cardinality(DOMAIN sessions) = 1
  /\ Len(upsertLog) >= 1
  /\ passes = 1

\* C4: the buffer never exceeds the batch size and is below it whenever a
\* line is read; an aggregate is upserted only after every sample of its
\* session, the last partial buffer included, was handed to the writer.
C4_BatchFlushPolicy ==
  /\ \A sid \in DOMAIN sessions :
       /\ Len(sessions[sid].samples) <= BatchSize
       /\ pc = "read" => Len(sessions[sid].samples) < BatchSize
  /\ \A row \in store :
       ~isDemoSession(row.session_id) =>
         /\ row.session_id \in DOMAIN written
         /\ Len(written[row.session_id]) = row.totalCount

C4_Witness ==
  \E row \in store :
    /\ row.totalCount > BatchSize
    /\ row.totalCount % BatchSize # 0
    /\ Len(written[row.session_id]) = row.totalCount

\* C5: reading a malformed line changes neither the report (counters and
\* errors) nor the accumulators, and the pass goes on to the next line.
C5_MalformedSkipped ==
  [][\A r \in MalformedLines :
       ReadLine(r) => (pc' = "read" /\ result' = result /\ sessions' = sessions)]_vars

\* The lines read in this pass form a fixture: sample lines only, dates
\* ascending, the same number of lines for every date.
DayOf(ts) == ts \div TicksPerDay
ConsumedDates == {DayOf(consumed[i].ts) : i \in DOMAIN consumed}
LinesOfDate(d) == Cardinality({i \in DOMAIN consumed : DayOf(consumed[i].ts) = d})
IsFixture ==
  /\ consumed # <<>>
  /\ \A i \in DOMAIN consumed : consumed[i].kind = "sample"
  /\ \A i, j \in DOMAIN consumed : i < j => DayOf(consumed[i].ts) <= DayOf(consumed[j].ts)
  /\ \A d, e \in ConsumedDates : LinesOfDate(d) = LinesOfDate(e)

\* C6: a first pass over N dates in ascending order, k sample lines per date
\* and nothing else, ends with N aggregates of N distinct dates,
\* nightsImported = N and samplesProcessed = N * k.
C6_FixtureCounts ==
  (pc = "done" /\ passes = 1 /\ IsFixture) =>
    /\ Cardinality(store) = Cardinality(ConsumedDates)
    /\ {row.date : row \in store} = ConsumedDates
    /\ result.nightsImported = Cardinality(ConsumedDates)
    /\ result.samplesProcessed = Len(consumed)
    /\ result.errors = <<>>

C6_Witness ==
  /\ pc = "done" /\ passes = 1 /\ IsFixture
  /\ Cardinality(ConsumedDates) = 2
  /\ Len(consumed) = 4

C8_EmptySessionSkipped ==
  [][\A sid \in DOMAIN sessions :
       (/\ sessions[sid].stats.totalCount = 0
        /\ result'.parquetFiles = Append(result.parquetFiles, getParquetPath(sid)))
       => (/\ store' = store
           /\ result'.nightsImported = result.nightsImported
           /\ result'.errors = result.errors)]_vars

C8_Witness ==
  /\ pc = "done"
  /\ result.eventsImported >= 1
  /\ result.nightsImported = 0
  /\ Len(result.parquetFiles) = 1
  /\ result.errors = <<>>
  /\ store = {}

\* The per-sample values held by the ingestor: the buffer and the three
\* stat arrays of every live accumulator.
HeldBy(s) ==
  Len(s.samples) + Len(s.stats.pressures) + Len(s.stats.leaks)
    + Len(s.stats.flowLimitations)
HeldValues == SumOver(DOMAIN sessions, [sid \in DOMAIN sessions |-> HeldBy(sessions[sid])])
CurrentCount == IF HasCurrent THEN sessions[currentSessionId].stats.totalCount ELSE 0

\* C10: the held values stay within a constant multiple of the
\* batch size (one buffer and three stat arrays of a batch each).
C10_BoundedByBatch == HeldValues <= 4 * BatchSize

\* C10, bounded by the session instead: the buffer stays within the batch size and the stat arrays
\* within three values per sample of the current session, whatever the
\* number of sessions and lines read before.
C10_BoundedBySession ==
  /\ \A sid \in DOMAIN sessions : Len(sessions[sid].samples) <= BatchSize
  /\ HeldValues <= BatchSize + 3 * CurrentCount

C10_Witness ==
  /\ HeldValues > 4 * BatchSize
  /\ CurrentCount > BatchSize

\* C11: a failing columnar write or aggregate upsert ends the call resolved,
\* not rejected, with one more error in the report; the report still counts
\* the sessions upserted before (nightsImported, their paths), the sample
\* lines read and at least the events counted before, and the store keeps
\* its rows.
C11_FailureResolves ==
  [][(WriteFail \/ UpsertFail) =>
       /\ pc' = "done"
       /\ Len(result'.errors) = Len(result.errors) + 1
       /\ result'.nightsImported = result.nightsImported
       /\ result'.nightsImported = Len(upsertLog')
       /\ result'.samplesProcessed = result.samplesProcessed
       /\ result'.samplesProcessed >=
            SumOver(Range(upsertLog'),
                    [sid \in Range(upsertLog') |-> Len(written'[sid])])
       /\ result'.eventsImported >= result.eventsImported
       /\ \A i \in DOMAIN upsertLog' :
            getParquetPath(upsertLog'[i]) \in Range(result'.parquetFiles)
       /\ \A i \in DOMAIN result.parquetFiles :
            result'.parquetFiles[i] = result.parquetFiles[i]
       /\ store' = store]_vars

C11_Witness ==
  /\ pc = "done"
  /\ result.errors # <<>>
  /\ result.nightsImported >= 1
  /\ result.eventsImported >= 1
  /\ store # {}

\* C12: a request with acceptable parameters for a session that is not a
\* demo session and has no columnar file is answered 404.
C12_NoFileIsNotFound ==
  (/\ resp.kind \in {"meso", "micro"}
   /\ resp.status # 400
   /\ ~isDemoSession(resp.sid)
   /\ getParquetPath(resp.sid) \notin DOMAIN files)
  => resp.status = 404

\* C13: a Meso request whose bucket is not an integer from 1 to 300, and a
\* Micro request with end <= start or a point count that is not positive,
\* is answered 400.
C13_BadParametersRejected ==
  /\ (resp.kind = "meso" /\ ~(IsNum(resp.bucket) /\ resp.bucket[2] \in MinBucket..MaxBucket))
       => resp.status = 400
  /\ (resp.kind = "micro" /\ (resp.end <= resp.start \/ resp.points <= 0))
       => resp.status = 400

\* C14: a request for a session that is being ingested (it has an
\* accumulator and a columnar file, and no aggregate) is rejected and
\* carries no data.
Unsealed(sid) ==
  /\ sid \in DOMAIN sessions
  /\ getParquetPath(sid) \in DOMAIN files
  /\ sid \notin Range(upsertLog)

C14_UnsealedRejected ==
  (resp.kind \in {"meso", "micro"} /\ Unsealed(resp.sid))
  => (resp.status \in {400, 404} /\ resp.data = <<>>)

C14_Witness ==
  /\ resp.kind = "meso"
  /\ Unsealed(resp.sid)
  /\ IsNum(resp.bucket) /\ resp.bucket[2] \in MinBucket..MaxBucket
  /\ resp.status = 404

\* C18: every bucket_start of a Meso response is a multiple of the bucket
\* size in milliseconds.
C18_BucketAligned ==
  (resp.kind = "meso" /\ resp.status = 200 /\ IsNum(resp.bucket))
  => \A i \in DOMAIN resp.data : resp.data[i] % (resp.bucket[2] * 1000) = 0

\* C15: for a requested point count of 2 or more, the data list the micro
\* route builds from a scan holds at most min(requested points, point cap)
\* records.
C15_AtMostTarget ==
  (lttbOut.kind = "micro" /\ lttbIn.targetPoints >= 2)
  => Len(lttbOut.out) <= Min2(lttbIn.targetPoints, PointCap)

\* C16: lttbDownsample returns min(target, n) points for every target >= 1.
C16_ExactCount ==
  (lttbOut.kind = "lttb" /\ lttbIn.targetPoints >= 1)
  => Len(lttbOut.out) = Min2(lttbIn.targetPoints, Len(lttbIn.data))

\* C16, from target 2 on: min(target, n) points for every target >= 2, and
\* for a target below 2 the whole series when it has at most target points,
\* else its first and last point.
C16_CountFromTwo ==
  lttbOut.kind = "lttb" =>
    /\ lttbIn.targetPoints >= 2 =>
         Len(lttbOut.out) = Min2(lttbIn.targetPoints, Len(lttbIn.data))
    /\ lttbIn.targetPoints < 2 =>
         Len(lttbOut.out) = (IF Len(lttbIn.data) <= lttbIn.targetPoints
                               THEN Len(lttbIn.data) ELSE 2)

C16_Witness ==
  /\ lttbOut.kind = "lttb"
  /\ lttbIn.targetPoints = 3
  /\ Len(lttbIn.data) = 4
  /\ Len(lttbOut.out) = 3

\* C17: the output of lttbDownsample starts with the first point of the
\* input and ends with its last point, for every target.
C17_KeepsEnds ==
  lttbOut.kind = "lttb" =>
    /\ Len(lttbOut.out) >= 1
    /\ lttbOut.out[1] = lttbIn.data[1]
    /\ lttbOut.out[Len(lttbOut.out)] = lttbIn.data[Len(lttbIn.data)]

C17_Witness ==
  /\ lttbOut.kind = "lttb"
  /\ Len(lttbIn.data) > lttbIn.targetPoints
  /\ lttbIn.targetPoints >= 3
  /\ lttbIn.data[1] # lttbIn.data[Len(lttbIn.data)]
  /\ lttbOut.out[Len(lttbOut.out)] = lttbIn.data[Len(lttbIn.data)]

\* C19: the ahi of every aggregate is a finite number; it is total_events
\* divided by mask_on_minutes / 60 when the mask-on time is positive and 0
\* when it is zero, and a session without mask-on samples has
\* mask_on_minutes = 0.
C19_AhiDefined ==
  \A row \in store :
    /\ IsFinite(row.ahi)
    /\ IsFinite(row.mask_on_minutes)
    /\ row.maskOnCount = 0 => row.mask_on_minutes = Zero
    /\ row.mask_on_minutes[1] > 0 =>
         row.ahi[1] * row.mask_on_minutes[1] =
           row.totalEvents * 60 * row.mask_on_minutes[2] * row.ahi[2]
    /\ row.mask_on_minutes[1] = 0 => row.ahi = Zero

C19_Witness ==
  \E row \in store :
    /\ row.maskOnCount = 0
    /\ row.totalEvents >= 1
    /\ row.ahi = Zero

\* C20: every aggregate has total_usage_minutes >= mask_on_minutes >= 0,
\* ahi >= 0 and a quality score from 0 to 100.
C20_AggregateRanges ==
  \A row \in store :
    /\ ~RatLess(row.total_usage_minutes, row.mask_on_minutes)
    /\ ~RatLess(row.mask_on_minutes, Zero)
    /\ IsFinite(row.ahi) /\ ~RatLess(row.ahi, Zero)
    /\ IsFinite(row.sleep_quality_score)
    /\ ~RatLess(row.sleep_quality_score, Zero)
    /\ ~RatLess(<<100, 1>>, row.sleep_quality_score)

C20_Witness ==
  \E row \in store :
    /\ RatLess(row.mask_on_minutes, row.total_usage_minutes)
    /\ RatLess(Zero, row.mask_on_minutes)
    /\ RatLess(Zero, row.ahi)
    /\ row.sleep_quality_score = Zero

\* C21: with the same leak percentage and usage, a larger AHI never gives a
\* larger quality score, rounding and clamping included.
C21_MonotoneInAhi ==
  (fnOut.kind = "scores" /\ ~RatLess(fnIn.ahi2, fnIn.ahi)) =>
    ~RatLess(fnOut.first, fnOut.second)

C21_Witness ==
  /\ fnOut.kind = "scores"
  /\ RatLess(fnIn.ahi, fnIn.ahi2)
  /\ RatLess(fnOut.second, fnOut.first)
  /\ RatLess(Zero, fnOut.second)

\* C22: with no other deduction (AHI at most 5, usage at least 80%), the
\* score is 100 less min(20, large_leak_percent - 10) when the large leak
\* percentage is above 10, and 100 otherwise.
C22_LeakAboveTen ==
  (/\ fnOut.kind = "score"
   /\ ~RatLess(<<5, 1>>, fnIn.ahi)
   /\ fnIn.counts[2] > 0
   /\ fnIn.counts[1] * 100 >= 80 * fnIn.counts[2]) =>
    fnOut.first =
      RRound(RSub(<<100, 1>>,
                  IF RatLess(<<10, 1>>, fnIn.largeLeakPercent)
                    THEN RMinOf(<<20, 1>>, RSub(fnIn.largeLeakPercent, <<10, 1>>))
                    ELSE Zero))

\* C23: for 3 <= t < n the t - 2 ranges scanned by lttbDownsample partition
\* the interior indices 1..n-2: every interior index is a candidate of
\* exactly one bucket, no bucket is empty, and the point emitted for a bucket
\* is one of its candidates.
C23_BucketsPartition ==
  LET n == Len(lttbIn.data)
      t == lttbIn.targetPoints
  IN (lttbOut.kind = "lttb" /\ 3 <= t /\ t < n) =>
       /\ \A k \in 1..(n - 2) :
            Cardinality({i \in 0..(t - 3) : k \in LttbCandidates(n, t, i)}) = 1
       /\ \A i \in 0..(t - 3) :
            /\ LttbCandidates(n, t, i) # {}
            /\ \E j \in LttbCandidates(n, t, i) : lttbOut.out[i + 2] = lttbIn.data[j + 1]

StrictlyAscending(seq) ==
  \A i \in 1..(Len(seq) - 1) : seq[i].timestamp < seq[i + 1].timestamp

\* C24: for a series of strictly ascending timestamps and a target of at
\* least 2, the timestamps of lttbDownsample's output are strictly ascending.
C24_OutputAscending ==
  (/\ lttbOut.kind = "lttb"
   /\ lttbIn.targetPoints >= 2
   /\ StrictlyAscending(lttbIn.data)) => StrictlyAscending(lttbOut.out)

\* C26: getMesoView returns exactly one row per non-empty bucket
\* floor(timestamp / bucketMs) * bucketMs, in ascending bucket_start order,
\* and the flow_avg of a row is the mean of the flow_rate of the samples of
\* its bucket.
C26_OneRowPerBucket ==
  LET bucketMs == fnIn.bucketSeconds * 1000
      BucketOf(x) == (x.timestamp \div bucketMs) * bucketMs
      buckets == {BucketOf(fnIn.rows[i]) : i \in DOMAIN fnIn.rows}
      Members(b) == {i \in DOMAIN fnIn.rows : BucketOf(fnIn.rows[i]) = b}
      \* twice the sum of the flow rates, which are multiples of 1/2
      Total(b) == SumOver(Members(b),
                          [i \in Members(b) |->
                             (fnIn.rows[i].value[1] * 2) \div fnIn.rows[i].value[2]])
  IN fnOut.kind = "meso" =>
       /\ Len(fnOut.rows) = Cardinality(buckets)
       /\ \A k \in 1..(Len(fnOut.rows) - 1) :
            fnOut.rows[k].bucket_start < fnOut.rows[k + 1].bucket_start
       /\ \A k \in DOMAIN fnOut.rows :
            /\ fnOut.rows[k].bucket_start \in buckets
            /\ fnOut.rows[k].flow_avg[1] * 2 * Cardinality(Members(fnOut.rows[k].bucket_start))
                 = Total(fnOut.rows[k].bucket_start) * fnOut.rows[k].flow_avg[2]

\* v is the element at index k (from 0) of the values in ascending order.
IsOrderStatistic(values, k, v) ==
  /\ \E i \in DOMAIN values : values[i] = v
  /\ Cardinality({i \in DOMAIN values : RatLess(values[i], v)}) <= k
  /\ Cardinality({i \in DOMAIN values : ~RatLess(v, values[i])}) >= k + 1

\* C25: for a non-empty stat array of N values the percentile is the sorted
\* element at index ceil(N * p) - 1 clamped to [0, N - 1]; the median is the
\* middle sorted element for odd N and the mean of the two middle ones for
\* even N; the array itself is left as it was.
C25_OrderStatistics ==
  LET N == Len(fnOut.given)
      idx == ((N * fnIn.percentile[1] + fnIn.percentile[2] - 1) \div fnIn.percentile[2]) - 1
      clamped == IF idx < 0 THEN 0 ELSE IF idx > N - 1 THEN N - 1 ELSE idx
  IN /\ fnOut.kind \in {"median", "stats"} =>
          /\ fnIn.values = fnOut.given
          /\ IF N % 2 = 1
               THEN IsOrderStatistic(fnOut.given, N \div 2, fnOut.median)
               ELSE \E lo, hi \in StatValues :
                      /\ IsOrderStatistic(fnOut.given, (N \div 2) - 1, lo)
                      /\ IsOrderStatistic(fnOut.given, N \div 2, hi)
                      /\ fnOut.median[1] * 2 * lo[2] * hi[2] =
                           (lo[1] * hi[2] + hi[1] * lo[2]) * fnOut.median[2]
     /\ fnOut.kind = "stats" =>
          IsOrderStatistic(fnOut.given, clamped, fnOut.percentile)

C25_Witness ==
  /\ fnOut.kind = "stats"
  /\ fnOut.given = <<<<3, 1>>, <<1, 1>>, <<4, 1>>, <<2, 1>>>>
  /\ fnIn.values = fnOut.given
  /\ fnIn.percentile = <<95, 100>>
  /\ fnOut.median = <<5, 2>>
  /\ fnOut.percentile = <<4, 1>>

\* C27: of two overlapping writeToParquet calls for different sessions,
\* neither fails, and once a call has written its file the file holds
\* exactly the batch passed to that call.
C27_CallsIsolated ==
  \A c \in DOMAIN calls :
    /\ calls[c].step # "rejected"
    /\ calls[c].step \in {"drop", "resolved"} =>
         /\ getParquetPath(calls[c].sid) \in DOMAIN files
         /\ files[getParquetPath(calls[c].sid)] = StoredRows(calls[c].samples)

\* C28: when the first ingestion pass, into an empty store, has completed
\* without error, nightsImported is the number of rows in the store.
C28_NightsMatchStore ==
  (pc = "done" /\ passes = 1 /\ result.errors = <<>>) =>
    result.nightsImported = Cardinality(store)

\* The calendar dates of the sessions whose aggregate was upserted.
NightDates == {upsertLog[i][2] : i \in DOMAIN upsertLog}

\* C29: in the report of a pass, ended normally or on an error, dateRange is
\* null exactly when nightsImported = 0 and otherwise is the earliest and
\* latest date of the nights counted.
C29_DateRangeOfNights ==
  (pc = "done" /\ passes = 1) =>
    /\ result.dateRange = NoRange <=> result.nightsImported = 0
    /\ result.nightsImported > 0 =>
         result.dateRange = <<MinOf(NightDates), MaxOf(NightDates)>>

\* C30: every entry of the report's parquetFiles names a columnar file that
\* exists and holds at least one sample.
C30_ReportedFilesExist ==
  pc = "done" =>
    \A i \in DOMAIN result.parquetFiles :
      /\ result.parquetFiles[i] \in DOMAIN files
      /\ Len(files[result.parquetFiles[i]]) >= 1
====
